---- MODULE Spec2Model ----
(***************************************************************************)
(* Trainable ISTA (src/tista.py): the layer recursion of TISTA_NET.forward, *)
(* the error variance estimator eval_tau2, the MMSE shrinkage function and  *)
(* the incremental training loop of main() with its NaN guard and the Adam  *)
(* step.                                                                    *)
(*                                                                          *)
(* Numbers.  A float is modelled in one of two ways.                        *)
(*   - A class: "nan", "ninf", "neg", "zero", "pos", "pinf".  Arithmetic on *)
(*     classes follows IEEE-754 for the special values (0/0, inf/inf,       *)
(*     inf-inf and 0*inf are nan; nan is absorbing) and returns the SET of  *)
(*     classes the result can take where the class of the operands does not *)
(*     decide it (pos + neg; exp of a negative number, which may underflow  *)
(*     to zero).  Tensors are scalarised: one coordinate stands for the     *)
(*     batch, and one positive number for the sensing matrix.               *)
(*   - An extended rational [k, n, d]: k = "fin" with value n/d (d > 0), or *)
(*     k in "nan", "pinf", "ninf".  gamma is kept this way, on a grid of    *)
(*     1/GammaScale, and eval_tau2 is computed exactly on it.  Energies     *)
(*     (||t||^2, sigma2, v2, tau2) are in units of the clamp floor 1e-7.    *)
(***************************************************************************)
EXTENDS Integers, Sequences, FiniteSets

VARIABLES entry, pc, gen, bi, ei, gamma, grad, fresh, exp_avg, exp_avg_sq,
          nmse_sum, reports, args, result, outcome, gammaPre, gamma0

vars == <<entry, pc, gen, bi, ei, gamma, grad, fresh, exp_avg, exp_avg_sq,
          nmse_sum, reports, args, result, outcome, gammaPre, gamma0>>

\* ---------------------------------------------------------------- sizes
\* The source's sizes, scaled down (N = 500, M = 250, num_batch = 200,
\* num_generations = 15, max_layers = 20, 10 evaluation batches).
N == 3
M == 2
NumBatch == 2
NumGenerations == 2
NumEval == 1
MaxLayers == 3
\* A direct caller of forward may ask for up to MaxLayers + Over layers.
Over == 1
\* ||t||^2 of a finite non-zero residual, in units of the clamp floor.
MaxNorm2 == 2
\* ||t||^2 of the residual a direct caller of eval_tau2 passes
MaxArg == 6
\* gamma is kept on a grid of 1/GammaScale; one Adam displacement is one
\* grid step.
GammaScale == 10

\* trace(A^T A), trace(W W^T) and the calibrated noise variance (in units of
\* the clamp floor): fixed once before training.
taa == 1
tww == 2
sigma2 == 1
\* the clamp floor 1e-7 of eval_tau2, the unit of the energies
VFloor == 1

Idx == 0 .. (MaxLayers - 1)

\* ------------------------------------------------------- float classes
F == {"nan", "ninf", "neg", "zero", "pos", "pinf"}

IsInf(a) == a \in {"ninf", "pinf"}
IsNegC(a) == a \in {"ninf", "neg"}

Neg(a) ==
  CASE a = "ninf" -> "pinf"
    [] a = "neg"  -> "pos"
    [] a = "pos"  -> "neg"
    [] a = "pinf" -> "ninf"
    [] OTHER      -> a

\* a * b
Mul(a, b) ==
  IF a = "nan" \/ b = "nan" THEN "nan"
  ELSE IF (a = "zero" /\ IsInf(b)) \/ (b = "zero" /\ IsInf(a)) THEN "nan"
  ELSE IF a = "zero" \/ b = "zero" THEN "zero"
  ELSE IF IsInf(a) \/ IsInf(b)
       THEN (IF IsNegC(a) = IsNegC(b) THEN "pinf" ELSE "ninf")
  ELSE (IF IsNegC(a) = IsNegC(b) THEN "pos" ELSE "neg")

\* a / b (a zero divisor is +0)
Div(a, b) ==
  IF a = "nan" \/ b = "nan" THEN "nan"
  ELSE IF IsInf(a) /\ IsInf(b) THEN "nan"
  ELSE IF a = "zero" /\ b = "zero" THEN "nan"
  ELSE IF b = "zero" THEN (IF IsNegC(a) THEN "ninf" ELSE "pinf")
  ELSE IF IsInf(b) THEN "zero"
  ELSE IF a = "zero" THEN "zero"
  ELSE IF IsInf(a) THEN (IF IsNegC(a) = IsNegC(b) THEN "pinf" ELSE "ninf")
  ELSE (IF IsNegC(a) = IsNegC(b) THEN "pos" ELSE "neg")

\* a + b: the classes the sum can take
Add(a, b) ==
  IF a = "nan" \/ b = "nan" THEN {"nan"}
  ELSE IF IsInf(a) /\ IsInf(b) THEN (IF a = b THEN {a} ELSE {"nan"})
  ELSE IF IsInf(a) THEN {a}
  ELSE IF IsInf(b) THEN {b}
  ELSE IF a = "zero" THEN {b}
  ELSE IF b = "zero" THEN {a}
  ELSE IF a = b THEN {a}
  ELSE {"neg", "zero", "pos"}

Sqrt(a) == IF IsNegC(a) THEN "nan" ELSE a

\* exp(a): a negative argument may underflow to 0, a positive one overflow
Exp(a) ==
  CASE a = "nan"  -> {"nan"}
    [] a = "ninf" -> {"zero"}
    [] a = "neg"  -> {"zero", "pos"}
    [] a = "zero" -> {"pos"}
    [] a = "pos"  -> {"pos", "pinf"}
    [] a = "pinf" -> {"pinf"}

\* x.mm(At) and x.mm(Wt), scalarised: the sensing matrix is one positive
\* number a, and so are At = a and Wt = 1/a
Mm(a) == Mul(a, "pos")

\* --------------------------------------------------- extended rationals
Fin(n, d) == [k |-> "fin", n |-> n, d |-> d]
QNaN == [k |-> "nan", n |-> 0, d |-> 1]
QPInf == [k |-> "pinf", n |-> 0, d |-> 1]
QNInf == [k |-> "ninf", n |-> 0, d |-> 1]
QNone == [k |-> "none", n |-> 0, d |-> 1]
QInt(n) == Fin(n, 1)

Abs(n) == IF n < 0 THEN -n ELSE n

RECURSIVE GCD(_, _)
GCD(a, b) == IF b = 0 THEN a ELSE GCD(b, a % b)

\* n/d in lowest terms, d > 0
QNorm(n, d) ==
  LET g == GCD(Abs(n), Abs(d))
      sg == IF d < 0 THEN -1 ELSE 1
  IN  Fin(sg * (n \div g), sg * (d \div g))

\* an extended rational in lowest terms
Low(q) == IF q.k = "fin" THEN QNorm(q.n, q.d) ELSE q

\* the class of an extended rational
Cls(q) ==
  IF q.k = "fin"
  THEN (IF q.n < 0 THEN "neg" ELSE IF q.n = 0 THEN "zero" ELSE "pos")
  ELSE q.k

QOfCls(c) == CASE c = "nan" -> QNaN [] c = "pinf" -> QPInf [] c = "ninf" -> QNInf

QAdd(a, b) ==
  IF a.k = "fin" /\ b.k = "fin"
  THEN Fin(a.n * b.d + b.n * a.d, a.d * b.d)
  ELSE QOfCls(CHOOSE c \in Add(Cls(a), Cls(b)) : TRUE)

QNeg(a) == IF a.k = "fin" THEN Fin(-a.n, a.d) ELSE QOfCls(Neg(a.k))

QSub(a, b) == QAdd(a, QNeg(b))

QMul(a, b) ==
  IF a.k = "fin" /\ b.k = "fin"
  THEN Fin(a.n * b.n, a.d * b.d)
  ELSE QOfCls(Mul(Cls(a), Cls(b)))

QDiv(a, b) ==
  IF a.k = "fin" /\ b.k = "fin" /\ b.n # 0
  THEN (IF b.n < 0 THEN Fin(-(a.n * b.d), -(a.d * b.n)) ELSE Fin(a.n * b.d, a.d * b.n))
  ELSE IF a.k = "fin" /\ b.k # "fin" /\ b.k # "nan"
  THEN QInt(0)
  ELSE QOfCls(Div(Cls(a), Cls(b)))

\* a < b, for finite a and b
QLess(a, b) == a.n * b.d < b.n * a.d

\* x.clamp(min = lo): a new value, x is left as it is
clamp(x, lo) ==
  IF x.k = "nan" THEN x
  ELSE IF x.k = "ninf" THEN lo
  ELSE IF x.k = "pinf" THEN x
  ELSE IF QLess(x, lo) THEN lo ELSE x

\* the functions on Idx that take at j a value of S[j], as sequences 1..n
RECURSIVE Pick(_, _)
Pick(S, n) ==
  IF n = 0 THEN {<<>>}
  ELSE {Append(q, x) : q \in Pick(S, n - 1), x \in S[n - 1]}

Vec(q) == [j \in Idx |-> q[j + 1]]

\* ------------------------------------------------------ configuration
\* p, 1 - p, alpha2 and xi = alpha2 + sigma2 are positive constants
p == "pos"
OneMinusP == "pos"
alpha2 == "pos"
xi == "pos"

\* ------------------------------------------------------------ isnan
\* a comparison under which no value differs from itself
isnan_reflexive(x) == x # x

\* x != x
isnan(x) == x = "nan"

\* ----------------------------------------------------------- TISTA_NET
\* torch.normal(1.0, 0.1): the values a coordinate of gamma may start with
GammaInit == {QNorm(GammaScale - 1, GammaScale), QNorm(GammaScale + 1, GammaScale)}

\* gauss(x, var) = exp(-x*x/(2.0*var))
gauss(x, var) == Exp(Neg(Div(Mul(x, x), Mul("pos", var))))

\* (y*alpha2/xi)*p*gauss(y, xi) / ((1-p)*gauss(y, tau2) + p*gauss(y, xi)),
\* for each value the two densities can take
MMSE_shrinkage(yy, t2) ==
  UNION { { [s |-> Div(Mul(Mul(Div(Mul(yy, alpha2), xi), p), g[1]), dn),
             gxi |-> g[1], gtau |-> g[2]] :
              dn \in Add(Mul(OneMinusP, g[2]), Mul(p, g[1])) } :
          g \in gauss(yy, xi) \X gauss(yy, t2) }

\* MMSE_shrinkage tabulated, by the places of y and tau2 in FSeq
FSeq == <<"nan", "ninf", "neg", "zero", "pos", "pinf">>

FPlace(c) == CHOOSE k \in 1 .. 6 : FSeq[k] = c

RECURSIVE Tabulate(_)
Tabulate(k) ==
  IF k = 0 THEN <<>>
  ELSE Append(Tabulate(k - 1),
              MMSE_shrinkage(FSeq[((k - 1) \div 6) + 1], FSeq[((k - 1) % 6) + 1]))

ShrinkageTable == Tabulate(36)

\* line 83: self.MMSE_shrinkage(r, tau2), looked up
Shrunk(r, t2) == ShrinkageTable[(FPlace(r) - 1) * 6 + FPlace(t2)]

\* eval_tau2(t, i), from ||t||^2 (t.norm(2,1).pow(2.0)) and gamma[i].
\* The clamp of line 72 builds a new value that is not assigned: v2 goes
\* into tau2 as line 71 left it.
eval_tau2(norm2, g) ==
  LET v2a == QDiv(QSub(norm2, QInt(M * sigma2)), QInt(taa))
      clamped == clamp(v2a, QInt(VFloor))
      v2b == v2a
      t2 == QAdd(QMul(QDiv(v2b, QInt(N)),
                      QAdd(QInt(N), QMul(QSub(QMul(g, g), QMul(QInt(2), g)), QInt(M)))),
                 QDiv(QMul(QMul(QMul(g, g), QInt(tww)), QInt(sigma2)), QInt(N)))
  IN  [v2 |-> Low(v2b), tau2 |-> Low(t2)]

\* ||t||^2 for a residual of class c
Norm2(c) ==
  CASE c = "nan"  -> {QNaN}
    [] IsInf(c)   -> {QPInf}
    [] c = "zero" -> {QInt(0)}
    [] OTHER      -> {QInt(n) : n \in 1 .. MaxNorm2}

\* the depth clamped to max_layers
LoopBound_clamped(n) == IF n > MaxLayers THEN MaxLayers ELSE n

\* range(max_itr): the number of iterations of the loop of forward
LoopBound(n) == n

\* the gain of the iteration before
LayerIndex_previous(i) == IF i = 0 THEN 0 ELSE i - 1

\* the index of gamma that iteration i reads: self.gamma[i]
LayerIndex(i) == i

\* the measurement y = x.mm(At) + noise, and a finite estimate, as classes
YSet == {"neg", "zero", "pos"}

\* line 81: the classes of eval_tau2(t, i), paired with the class of the
\* residual t
Tau2Classes(g) == UNION { {<<c, Cls(eval_tau2(n2, g).tau2)>> : n2 \in Norm2(c)} : c \in F }

\* line 80: t = y - s.mm(At)
Residual(yy, s0) == Add(yy, Neg(Mm(s0)))

\* line 82: r = s + t.mm(Wt)*self.gamma[i]
Feedback(s0, t, g) == Add(s0, Mul(Mm(t), Cls(g)))

\* lines 80-83, one iteration of the loop of forward on the state st = (s, the
\* number of the iteration that left s, y, the number of draws of y, the
\* iterations so far), with g = gamma[i] and the classes T2 of tau2: the states
\* it can leave.  Each iteration is logged with the index of gamma it reads
\* and the s and the y it starts from.
LayerStep(i, st, g, T2) ==
  { [s |-> o.s, ver |-> i + 1, y |-> st.y, yd |-> st.yd,
     log |-> Append(st.log, [i |-> i, g |-> LayerIndex(i), sin |-> st.ver, y |-> st.yd])] :
      o \in UNION { Shrunk(q[1], q[2]) :
                    q \in UNION { Feedback(st.s, t, g) \X {c[2] : c \in {d \in T2 : d[1] = t}} :
                                  t \in Residual(st.y, st.s) } } }

\* lines 79-84: the loop from iteration i on, over the set S of the states
\* the iterations before i can have left, then return s.  self.gamma[i] with
\* i out of range raises and forward returns nothing.
RECURSIVE Loop(_, _, _)
Loop(i, n, S) ==
  IF i >= LoopBound(n)
  THEN {[err |-> FALSE, cls |-> st.s, ver |-> st.ver, yd |-> st.yd, log |-> st.log] : st \in S}
  ELSE IF LayerIndex(i) \notin Idx
  THEN {[err |-> TRUE, cls |-> "none", ver |-> -1, yd |-> st.yd, log |-> st.log] : st \in S}
  ELSE LET g == gamma[LayerIndex(i)]
           T2 == Tau2Classes(g)
       IN  Loop(i + 1, n, UNION { LayerStep(i, st, g, T2) : st \in S })

\* forward(x, s, max_itr): line 78 draws the measurement, once
forward(s0, n) ==
  Loop(0, n, {[s |-> s0, ver |-> 0, y |-> yy, yd |-> 1, log |-> <<>>] : yy \in YSet})

\* ----------------------------------------------------------------- Adam
\* exp_avg.mul_(beta1).add_(1 - beta1, grad)
adam_exp_avg(m, g) == Add(Mul("pos", m), Mul("pos", g))

\* exp_avg_sq.mul_(beta2).addcmul_(1 - beta2, grad, grad)
adam_exp_avg_sq(v, g) == Add(Mul("pos", v), Mul("pos", Mul(g, g)))

\* the denominator without eps
adam_denom_noeps(v) == {Sqrt(v)}

\* denom = exp_avg_sq.sqrt().add_(eps)
adam_denom(v) == Add(Sqrt(v), "pos")

\* step_size * exp_avg / denom
adam_update(m, dn) == Mul("pos", Div(m, dn))

\* p.data.addcdiv_(-step_size, exp_avg, denom): a finite non-zero update moves
\* the coordinate by one grid step
adam_apply(q, u) ==
  CASE u = "zero" -> q
    [] u = "pos"  -> Low(QSub(q, Fin(1, GammaScale)))
    [] u = "neg"  -> Low(QAdd(q, Fin(1, GammaScale)))
    [] OTHER      -> QSub(q, QOfCls(u))

\* opt.step() on one coordinate: the states it can leave
adam_step(q, m, v, g) ==
  UNION { { [gamma |-> adam_apply(q, adam_update(mv[1], dn)), m |-> mv[1], v |-> mv[2]] :
              dn \in adam_denom(mv[2]) } :
          mv \in adam_exp_avg(m, g) \X adam_exp_avg_sq(v, g) }

\* the gradient left as the mini-batch before left it
zero_grad_missing(g) == g

\* opt.zero_grad()
zero_grad(g) == [j \in Idx |-> "zero"]

\* the depth of the training forward pass of generation g: gen+1
TrainDepth(g) == g + 1

\* the evaluation at full depth
EvalDepth_full(g) == MaxLayers

\* the depth of the evaluation forward pass of generation g: gen+1
EvalDepth(g) == g + 1

\* --------------------------------------------------------------- state
None == [err |-> FALSE, cls |-> "none", ver |-> -1, yd |-> 0, log |-> <<>>]
NoArgs == [n |-> 0, s |-> "none", t2 |-> "none", norm2 |-> QNone, i |-> 0]
Zeros == [j \in Idx |-> "zero"]

\* Entry points: main() (line 139), or a caller of network.forward, of
\* eval_tau2 or of MMSE_shrinkage with arguments of its own.
Start(entries) ==
  /\ entry \in entries
  /\ pc = IF entry = "main" THEN "train" ELSE "call"
  /\ gen = 0
  /\ bi = 0
  /\ ei = 0
  /\ \E a \in GammaInit : \E b \in GammaInit \ {a} :
       gamma = [j \in Idx |-> IF j % 2 = 0 THEN a ELSE b]
  /\ gamma0 = gamma
  /\ gammaPre = gamma
  /\ grad = Zeros
  /\ fresh = Zeros
  /\ exp_avg = Zeros
  /\ exp_avg_sq = Zeros
  /\ nmse_sum = "zero"
  /\ reports = <<>>
  /\ args \in CASE entry = "forward" ->
                     {[NoArgs EXCEPT !.n = n, !.s = s0] :
                        n \in 1 .. (MaxLayers + Over), s0 \in YSet}
                [] entry = "eval_tau2" ->
                     {[NoArgs EXCEPT !.norm2 = q, !.i = i] :
                        q \in {QInt(n) : n \in 0 .. MaxArg}, i \in Idx}
                [] entry = "MMSE_shrinkage" ->
                     {[NoArgs EXCEPT !.s = r, !.t2 = t2] : r \in F, t2 \in F}
                [] OTHER -> {NoArgs}
  /\ result = None
  /\ outcome = "none"

\* the program run: main()
Init == Start({"main"})

\* one function of the network called on its own
InitCall == Start({"forward", "eval_tau2", "MMSE_shrinkage"})

\* network.forward(x, s, max_itr) called directly
CallForward ==
  /\ pc = "call"
  /\ entry = "forward"
  /\ result' \in forward(args.s, args.n)
  /\ pc' = IF result'.err THEN "error" ELSE "returned"
  /\ UNCHANGED <<entry, gen, bi, ei, gamma, grad, fresh, exp_avg, exp_avg_sq,
                 nmse_sum, reports, args, outcome, gammaPre, gamma0>>

\* network.eval_tau2(t, i) called directly: v2 as line 73 reads it, and tau2
CallEvalTau2 ==
  /\ pc = "call"
  /\ entry = "eval_tau2"
  /\ result' = eval_tau2(args.norm2, gamma[args.i])
  /\ pc' = "returned"
  /\ UNCHANGED <<entry, gen, bi, ei, gamma, grad, fresh, exp_avg, exp_avg_sq,
                 nmse_sum, reports, args, outcome, gammaPre, gamma0>>

\* network.MMSE_shrinkage(y, tau2) called directly
CallShrinkage ==
  /\ pc = "call"
  /\ entry = "MMSE_shrinkage"
  /\ result' \in MMSE_shrinkage(args.s, args.t2)
  /\ pc' = "returned"
  /\ UNCHANGED <<entry, gen, bi, ei, gamma, grad, fresh, exp_avg, exp_avg_sq,
                 nmse_sum, reports, args, outcome, gammaPre, gamma0>>

\* lines 109-112: the next mini-batch: zero_grad, then the forward pass
TrainForward ==
  /\ pc = "train"
  /\ bi < NumBatch
  /\ grad' = zero_grad(grad)
  /\ args' = [NoArgs EXCEPT !.n = TrainDepth(gen), !.s = "zero"]
  /\ result' \in forward("zero", TrainDepth(gen))
  /\ pc' = IF result'.err THEN "error" ELSE "backward"
  /\ gammaPre' = gamma
  /\ UNCHANGED <<entry, gen, bi, ei, gamma, fresh, exp_avg, exp_avg_sq,
                 nmse_sum, reports, outcome, gamma0>>

\* the coordinates of gamma the forward pass read
ReadSet == {result.log[q].g : q \in 1 .. Len(result.log)}

\* the values a coordinate of the back-propagated gradient takes besides a
\* finite non-zero one
GradVals == {"nan", "ninf", "pinf", "zero"}

\* The gradient of the loss on gamma: zero on the coordinates the forward pass
\* did not read; nan on those it read when the estimate is nan; otherwise
\* finite and non-zero on them, but for at most one of them, which takes any
\* other value.
GradVecs ==
  IF result.cls = "nan"
  THEN {[j \in Idx |-> IF j \in ReadSet THEN "nan" ELSE "zero"]}
  ELSE {[j \in Idx |-> IF j \in ReadSet THEN "pos" ELSE "zero"]}
       \cup {[j \in Idx |-> IF j = c THEN x ELSE IF j \in ReadSet THEN "pos" ELSE "zero"] :
               c \in ReadSet, x \in GradVals}

\* lines 113-114: loss.backward() adds the gradient to param.grad
Backward ==
  /\ pc = "backward"
  /\ \E fr \in GradVecs :
       /\ fresh' = fr
       /\ \E ac \in Pick([j \in Idx |-> Add(grad[j], fr[j])], MaxLayers) :
            grad' = Vec(ac)
  /\ pc' = "guard"
  /\ result' = None
  /\ UNCHANGED <<entry, gen, bi, ei, gamma, exp_avg, exp_avg_sq, nmse_sum,
                 reports, args, outcome, gammaPre, gamma0>>

\* the skipped mini-batch is run again
AfterSkip_retry(b) == b

\* the index of the mini-batch that follows a skipped one: continue
AfterSkip(b) == b + 1

\* lines 116-118: if isnan(grads).any(): continue
Guard ==
  /\ pc = "guard"
  /\ IF \E j \in Idx : isnan(grad[j])
     THEN /\ bi' = AfterSkip(bi)
          /\ pc' = "train"
          /\ outcome' = "skipped"
          /\ fresh' = Zeros
     ELSE /\ pc' = "opt_step"
          /\ UNCHANGED <<bi, outcome, fresh>>
  /\ UNCHANGED <<entry, gen, ei, gamma, grad, exp_avg, exp_avg_sq, nmse_sum,
                 reports, args, result, gammaPre, gamma0>>

\* line 120: opt.step()
OptStep ==
  /\ pc = "opt_step"
  /\ \E st \in Pick([j \in Idx |-> adam_step(gamma[j], exp_avg[j], exp_avg_sq[j], grad[j])],
                    MaxLayers) :
       /\ gamma' = [j \in Idx |-> st[j + 1].gamma]
       /\ exp_avg' = [j \in Idx |-> st[j + 1].m]
       /\ exp_avg_sq' = [j \in Idx |-> st[j + 1].v]
  /\ bi' = bi + 1
  /\ pc' = "train"
  /\ outcome' = "applied"
  /\ fresh' = Zeros
  /\ gammaPre' = gamma'
  /\ UNCHANGED <<entry, gen, ei, grad, nmse_sum, reports, args, result, gamma0>>

\* lines 122-123: the mini-batches of the generation are over
EvalStart ==
  /\ pc = "train"
  /\ bi >= NumBatch
  /\ nmse_sum' = "zero"
  /\ ei' = 0
  /\ pc' = "eval"
  /\ UNCHANGED <<entry, gen, bi, gamma, grad, fresh, exp_avg, exp_avg_sq,
                 reports, args, result, outcome, gammaPre, gamma0>>

\* lines 124-126: the forward pass of the next evaluation batch
EvalForward ==
  /\ pc = "eval"
  /\ ei < NumEval
  /\ args' = [NoArgs EXCEPT !.n = EvalDepth(gen), !.s = "zero"]
  /\ result' \in forward("zero", EvalDepth(gen))
  /\ pc' = IF result'.err THEN "error" ELSE "accumulate"
  /\ UNCHANGED <<entry, gen, bi, ei, gamma, grad, fresh, exp_avg, exp_avg_sq,
                 nmse_sum, reports, outcome, gammaPre, gamma0>>

\* lines 127-130: nmse_sum += sum of 10 log10(||x - x_hat||^2 / ||x||^2)
Accumulate ==
  /\ pc = "accumulate"
  /\ nmse_sum' = IF result.cls = "nan" \/ nmse_sum = "nan" THEN "nan" ELSE "fin"
  /\ ei' = ei + 1
  /\ pc' = "eval"
  /\ result' = None
  /\ UNCHANGED <<entry, gen, bi, gamma, grad, fresh, exp_avg, exp_avg_sq,
                 reports, args, outcome, gammaPre, gamma0>>

\* line 132: the report of the generation, then the next generation
Report ==
  /\ pc = "eval"
  /\ ei >= NumEval
  /\ reports' = Append(reports, [gen |-> gen + 1, nmse |-> nmse_sum])
  /\ IF gen + 1 < NumGenerations
     THEN /\ gen' = gen + 1
          /\ bi' = 0
          /\ pc' = "train"
     ELSE /\ pc' = "finish"
          /\ UNCHANGED <<gen, bi>>
  /\ UNCHANGED <<entry, ei, gamma, grad, fresh, exp_avg, exp_avg_sq, nmse_sum,
                 args, result, outcome, gammaPre, gamma0>>

\* lines 134-135: the elapsed time is printed and main returns
Finish ==
  /\ pc = "finish"
  /\ pc' = "done"
  /\ UNCHANGED <<entry, gen, bi, ei, gamma, grad, fresh, exp_avg, exp_avg_sq,
                 nmse_sum, reports, args, result, outcome, gammaPre, gamma0>>

Next ==
  \/ TrainForward
  \/ Backward
  \/ Guard
  \/ OptStep
  \/ EvalStart
  \/ EvalForward
  \/ Accumulate
  \/ Report
  \/ Finish

Spec == Init /\ [][Next]_vars

NextCall ==
  \/ CallForward
  \/ CallEvalTau2
  \/ CallShrinkage

CallSpec == InitCall /\ [][NextCall]_vars

\* the states in which main is at a step that computes a forward pass, a
\* backward pass or an optimizer step
Computing == pc \in {"backward", "opt_step", "eval"} \/ (pc = "train" /\ bi < NumBatch)

\* The interpreter runs the one thread of the program until it ends: every
\* step that can be taken is taken.  At most one action is enabled in a
\* state, so that this is weak fairness of each action.  For the computing
\* steps, which are enabled exactly in the states of Computing and change pc,
\* weak fairness is written out as its definition; in a behaviour of Spec
\* the steps that change vars are the steps of Next.
FairSpec ==
  /\ Spec
  /\ WF_vars(Guard)
  /\ WF_vars(EvalStart)
  /\ WF_vars(Accumulate)
  /\ WF_vars(Report)
  /\ WF_vars(Finish)
  /\ ([]<>~Computing \/ []<><<TRUE>>_vars)

\* A call that was made runs: weak fairness of each of the three calls; that
\* of CallForward and of CallEvalTau2, which are enabled exactly where their
\* function is at its call and change pc, is written out as its definition.
FairCallSpec ==
  /\ CallSpec
  /\ WF_vars(CallShrinkage)
  /\ ([]<>~(entry = "forward" /\ pc = "call") \/ []<><<CallForward>>_vars)
  /\ ([]<>~(entry = "eval_tau2" /\ pc = "call") \/ []<><<CallEvalTau2>>_vars)

\* ================================================================ claims

\* C1: a mini-batch whose back-propagated gradient has a nan coordinate does
\* not step the optimizer: nothing between the start of the mini-batch and
\* the guard changes gamma, and the guard then leaves gamma (and the moments
\* of Adam) as they are and goes on to the mini-batch after it, in the same
\* generation.
C1_NaNGradientSkipsStep ==
  /\ [](pc \in {"backward", "guard", "opt_step"} => gamma = gammaPre)
  /\ [][(pc = "guard" /\ \E j \in Idx : fresh[j] = "nan")
          => /\ gamma' = gammaPre
             /\ exp_avg' = exp_avg
             /\ exp_avg_sq' = exp_avg_sq
             /\ gen' = gen
             /\ bi' = bi + 1
             /\ pc' = "train"]_vars

\* C1 witness: a mini-batch with a nan gradient coordinate on a finite
\* estimate has been skipped, after a step was applied
C1_Witness ==
  /\ pc = "train"
  /\ outcome = "skipped"
  /\ \E j \in Idx : grad[j] = "nan"
  /\ \E j \in Idx : grad[j] = "pos"
  /\ gamma[0] # gamma0[0]

\* C2: every training forward pass and every evaluation forward pass of
\* generation gen is asked for gen + 1 layers and runs gen + 1 iterations; gen
\* starts at 0 and grows by one.
C2_DepthIsGenPlusOne ==
  /\ [](/\ entry = "main" /\ pc \in {"backward", "accumulate"}
        => /\ args.n = gen + 1
           /\ Len(result.log) = gen + 1)
  /\ [](entry = "main" => pc # "error")
  /\ [][gen' # gen => gen' = gen + 1]_vars

\* C2 witness: the evaluation of the second generation, at depth 2
C2_Witness ==
  /\ pc = "accumulate"
  /\ gen = 1
  /\ Len(result.log) = 2

\* C3: eval_tau2 computes tau2 from a v2 that is at least the floor, and the
\* tau2 it returns is positive, for every finite residual.
C3_V2AtLeastFloor ==
  (entry = "eval_tau2" /\ pc = "returned")
    => /\ ~QLess(result.v2, QInt(VFloor))
       /\ Cls(result.tau2) = "pos"

\* C4: where both densities are zero, at a finite r and a finite positive
\* tau2, MMSE_shrinkage returns 0 and not nan.
C4_ZeroOverZeroIsZero ==
  (/\ entry = "MMSE_shrinkage" /\ pc = "returned"
   /\ args.s \in {"neg", "pos"} /\ args.t2 = "pos"
   /\ result.gxi = "zero" /\ result.gtau = "zero")
    => result.s = "zero"

\* C5: a forward call for more than MaxLayers layers ends in the index
\* error: it never returns an estimate, it ran the MaxLayers iterations that
\* have a gain and no other, nothing follows the error, and gamma is as it
\* was.
C5_DepthBeyondMaxLayersRaises ==
  /\ []((entry = "forward" /\ args.n > MaxLayers)
        => /\ pc # "returned"
           /\ gamma = gamma0
           /\ pc = "error" => /\ result.err
                              /\ result.cls = "none"
                              /\ Len(result.log) = MaxLayers)
  /\ [][pc # "error"]_vars
  /\ ((entry = "forward" /\ args.n > MaxLayers) ~> (pc = "error"))

\* C5 witness: the error of a call for more than MaxLayers layers
C5_Witness ==
  /\ entry = "forward"
  /\ args.n > MaxLayers
  /\ pc = "error"

\* C6: in generation gen, the entries of gamma after gen hold their initial
\* values, and their gradient and their moments are zero.
C6_LaterGainsKeepInitialValue ==
  entry = "main" =>
    \A j \in Idx : j > gen =>
      /\ gamma[j] = gamma0[j]
      /\ grad[j] = "zero"
      /\ fresh[j] = "zero"
      /\ exp_avg[j] = "zero"
      /\ exp_avg_sq[j] = "zero"

\* C6 witness: steps were applied in the last generation, gamma[0] and
\* gamma[gen] moved, and the gains after gen are as they started
C6_Witness ==
  /\ entry = "main"
  /\ pc = "train"
  /\ gen = NumGenerations - 1
  /\ bi = NumBatch
  /\ outcome = "applied"
  /\ gamma[0] # gamma0[0]
  /\ gamma[gen] # gamma0[gen]
  /\ gen + 1 \in Idx
  /\ gamma[gen + 1] = gamma0[gen + 1]

\* C7: a forward call for n layers, 1 <= n <= MaxLayers, returns after exactly
\* n iterations, in the order 0 .. n-1; iteration i reads gamma[i], starts
\* from the estimate iteration i-1 left (the initial one for i = 0) and from
\* the one measurement drawn in the call; the estimate returned is the one
\* iteration n-1 left.
C7_ForwardRunsLayersInOrder ==
  /\ []((entry = "forward" /\ pc = "returned")
        => /\ ~result.err
           /\ Len(result.log) = args.n
           /\ \A q \in 1 .. Len(result.log) :
                result.log[q] = [i |-> q - 1, g |-> q - 1, sin |-> q - 1, y |-> 1]
           /\ result.ver = args.n
           /\ result.yd = 1)
  /\ ((entry = "forward" /\ pc = "call" /\ args.n <= MaxLayers) ~> (pc = "returned"))

\* C7 witness: a call for MaxLayers layers has returned
C7_Witness ==
  /\ entry = "forward"
  /\ pc = "returned"
  /\ args.n = MaxLayers
  /\ Len(result.log) = MaxLayers

\* C8: main terminates, whichever mini-batches are skipped; it has then made
\* NumGenerations reports, numbered 1, 2, ...; the report of a generation is
\* made when its NumBatch mini-batches and its NumEval evaluation batches are
\* over, and before a mini-batch of the next generation starts.
C8_DriverTerminatesWithReports ==
  /\ [](entry = "main"
        => /\ \A q \in 1 .. Len(reports) : reports[q].gen = q
           /\ pc \in {"train", "backward", "guard", "opt_step", "eval", "accumulate"}
                => Len(reports) = gen
           /\ pc \in {"finish", "done"} => Len(reports) = NumGenerations)
  /\ [][reports' # reports
          => /\ bi = NumBatch
             /\ ei = NumEval
             /\ Len(reports') = Len(reports) + 1]_vars
  /\ (entry = "main" => <>(pc = "done"))

\* C8 witness: main is over, a mini-batch of the last generation was skipped
C8_Witness ==
  /\ pc = "done"
  /\ outcome = "skipped"
  /\ Len(reports) = NumGenerations

\* C9: the gradient the guard examines is the gradient of this mini-batch
\* alone, and the optimizer step is applied exactly when that gradient has no
\* nan coordinate, whatever the mini-batch before did.
C9_GuardSeesOwnGradientOnly ==
  /\ [](pc = "guard" => grad = fresh)
  /\ [][pc = "guard"
          => (pc' = "opt_step" <=> \A j \in Idx : fresh[j] # "nan")]_vars

\* C9 witness: the step of a mini-batch is applied after the mini-batch
\* before it was skipped
C9_Witness ==
  /\ pc = "opt_step"
  /\ outcome = "skipped"

\* C10: no coordinate of gamma is nan, whatever the gradients were.
C10_GammaNeverNaN ==
  entry = "main" => \A j \in Idx : gamma[j].k # "nan"
====
